---- MODULE Spec2Model ----
(***************************************************************************)
(* Model of the ToolPanel component (src/client/components/ToolPanel.jsx): *)
(* the tool-registration gate, the function-call dispatcher with its two   *)
(* tool handlers (deferred timer, remote call), the bounded debug log and  *)
(* the session-reset effect.                                               *)
(*                                                                         *)
(* The component runs on one cooperative scheduler: every effect run,      *)
(* timer callback and promise callback is one atomic action.  The parent   *)
(* (props isSessionActive / events, callback sendClientEvent) and the      *)
(* remote prediction service are the environment.                          *)
(***************************************************************************)
EXTENDS Integers, Sequences, FiniteSets, TLC

(***************************************************************************)
(* Bounds of the model.                                                    *)
(***************************************************************************)
MaxUpdates  == 2   \* updates of the event feed over one run
MaxCalls    == 2   \* function_call entries dispatched over one run
MaxSessions == 1   \* deactivations (session resets) over one run
MaxClock    == 1   \* ticks of the wall clock
MaxAppends  == 52  \* appends made by the log-recorder specification

(***************************************************************************)
(* Program constants.                                                      *)
(***************************************************************************)
LogCapacity == 50

(***************************************************************************)
(* JavaScript values.  Every value is a tagged record so that values of    *)
(* different JavaScript types can be stored side by side.                  *)
(***************************************************************************)
Undefined == [t |-> "undefined"]
Null      == [t |-> "null"]
Str(s)    == [t |-> "string", s |-> s]
Arr(a)    == [t |-> "array", a |-> a]
Obj(o)    == [t |-> "object", o |-> o]
Num(n)    == [t |-> "number", n |-> n]

\* v.name : reading a property of an object; a missing property is undefined.
Get(v, name) ==
  IF v.t = "object" /\ name \in DOMAIN v.o THEN v.o[name] ELSE Undefined

\* typeof v === "string"
IsString(v) == v.t = "string"

\* Reading a property of null or undefined throws a TypeError.
PropertyReadThrows(v) == v.t \in {"null", "undefined"}

(***************************************************************************)
(* The texts that occur as function-call arguments and as response bodies, *)
(* and JSON.parse on them.                                                 *)
(***************************************************************************)
PaletteArgs  == "{\"theme\":\"ocean\",\"colors\":[\"#001\",\"#002\",\"#003\",\"#004\",\"#005\"]}"
EnquiryArgs  == "{\"question\":\"Q1\",\"sessionId\":\"s1\"}"
Malformed    == "{\"question\":"
NullText     == "null"
BodyA        == "{\"text\":\"Answer A.\"}"
BodyErr      == "{\"text\":\"Internal Server Error\"}"
BodyNoText   == "{\"error\":\"flow not found\"}"
BodyHtml     == "<html>Bad Gateway</html>"

JSONParse(s) ==
  CASE s = PaletteArgs ->
         [ok |-> TRUE, value |-> Obj([theme |-> Str("ocean"),
                                      colors |-> Arr(<<Str("#001"), Str("#002"), Str("#003"),
                                                      Str("#004"), Str("#005")>>)])]
    [] s = EnquiryArgs ->
         [ok |-> TRUE, value |-> Obj([question |-> Str("Q1"), sessionId |-> Str("s1")])]
    [] s = NullText ->
         [ok |-> TRUE, value |-> Null]
    [] s = BodyA ->
         [ok |-> TRUE, value |-> Obj([text |-> Str("Answer A.")])]
    [] s = BodyErr ->
         [ok |-> TRUE, value |-> Obj([text |-> Str("Internal Server Error")])]
    [] s = BodyNoText ->
         [ok |-> TRUE, value |-> Obj([error |-> Str("flow not found")])]
    [] OTHER ->
         [ok |-> FALSE, value |-> Undefined]   \* SyntaxError

(***************************************************************************)
(* Outbound events.                                                        *)
(***************************************************************************)
sessionUpdate ==
  [type |-> "session.update",
   session |-> [tools |-> <<"display_color_palette", "foreign_worker_enquiry">>,
                tool_choice |-> "auto"]]

ResponseCreate(instructions) ==
  [type |-> "response.create", response |-> [instructions |-> instructions]]

PaletteInstructions ==
  Str("ask for feedback about the color palette - don't repeat the colors, just ask if they like the colors.")

ApologyInstructions == Str("Sorry, there was an error processing your request.")

Endpoint == "http://127.0.0.1:3001/api/v1/prediction/445d78bd-6f55-4465-97b0-ba42c14d8a95"

(***************************************************************************)
(* Inbound events: the output entries and the events the environment can   *)
(* put on the feed.                                                        *)
(***************************************************************************)
FunctionCall(name, arguments) ==
  [type |-> "function_call", name |-> name, arguments |-> arguments]

OutPalette  == FunctionCall("display_color_palette", PaletteArgs)
OutEnquiry  == FunctionCall("foreign_worker_enquiry", EnquiryArgs)
OutBad      == FunctionCall("foreign_worker_enquiry", Malformed)
OutNullArgs == FunctionCall("foreign_worker_enquiry", NullText)
OutUnknown  == FunctionCall("get_weather", EnquiryArgs)
OutMessage  == [type |-> "message", name |-> "", arguments |-> ""]

SessionCreated == [type |-> "session.created",
                   response |-> [has_output |-> FALSE, output |-> <<>>]]
\* a response.done event whose response carries no output property
DoneNoOutput   == [type |-> "response.done",
                   response |-> [has_output |-> FALSE, output |-> <<>>]]
ResponseDone(output) ==
  [type |-> "response.done", response |-> [has_output |-> TRUE, output |-> output]]

OutputLists ==
  { <<OutEnquiry>>,
    <<OutPalette, OutBad, OutEnquiry>>,
    <<OutMessage, OutUnknown, OutPalette>>,
    <<OutUnknown, OutUnknown>>,
    <<OutNullArgs>> }

EventPool ==
  {SessionCreated, DoneNoOutput} \cup {ResponseDone(l) : l \in OutputLists}

(***************************************************************************)
(* What the remote prediction service can answer.                          *)
(***************************************************************************)
ResponsePool ==
  { [status |-> 200, body |-> BodyA],
    [status |-> 500, body |-> BodyErr],
    [status |-> 200, body |-> BodyNoText],
    [status |-> 200, body |-> NullText],
    [status |-> 502, body |-> BodyHtml] }

(***************************************************************************)
(* State.                                                                  *)
(***************************************************************************)
VARIABLES
  isSessionActive,     \* prop: the session is active
  events,              \* prop: the event feed, newest first
  functionAdded,       \* state: RegistrationFlag
  functionCallOutput,  \* state: the current ToolOutcome, NoOutcome for null
  logs,                \* state: LogBuffer, newest first
  mounted,             \* the component is mounted (no effect has thrown)
  clock,               \* the wall clock read by new Date()
  pending,             \* timers and remote calls in flight
  sent,                \* events handed to sendClientEvent, in order
  calls,               \* history: function_call entries dispatched so far
  updates,             \* history: updates of the event feed so far
  epoch,               \* history: number of session resets so far
  sentMark,            \* history: Len(sent) at the latest session reset
  trace,               \* history: the effects of the handlers, in order
  lastRun              \* history: what the latest run of the events effect did

vars == <<isSessionActive, events, functionAdded, functionCallOutput, logs,
          mounted, clock, pending, sent, calls, updates, epoch, sentMark, trace, lastRun>>

NoOutcome == [type |-> "null", name |-> "", arguments |-> ""]

NoRun == [ran |-> FALSE, output |-> <<>>, dispatched |-> {}, threw |-> FALSE,
          registered |-> FALSE]

\* One effect of a handler: an addLog call, a sendClientEvent call, a timer
\* or remote call started, a remote call settled.
Ev(op, call, arg, val) ==
  [op |-> op, call |-> call, arg |-> arg, val |-> val, at |-> clock]

(***************************************************************************)
(* addLog: prepend the entry, keep the first LogCapacity entries.          *)
(***************************************************************************)
Slice(s, n) == SubSeq(s, 1, IF Len(s) < n THEN Len(s) ELSE n)

AddLogAppend(prevLogs, timestamp, type, data) ==
  Slice(prevLogs \o <<[timestamp |-> timestamp, type |-> type, data |-> data]>>,
        LogCapacity)

AddLog(prevLogs, timestamp, type, data) ==
  Slice(<<[timestamp |-> timestamp, type |-> type, data |-> data]>> \o prevLogs,
        LogCapacity)

\* setLogs on a component that has been unmounted changes nothing.
SetLogs(isMounted, prevLogs, timestamp, type, data) ==
  IF isMounted THEN AddLog(prevLogs, timestamp, type, data) ELSE prevLogs

(***************************************************************************)
(* The events effect, lines 132-216.  It works on a record st of the       *)
(* fields it changes; st.threw records an exception leaving the effect.    *)
(***************************************************************************)
EventData(ev) == Obj([type |-> Str(ev.type)])

ToolsData == Arr(<<Str(sessionUpdate.session.tools[1]), Str(sessionUpdate.session.tools[2])>>)

ShouldRegisterAlways(added, evs) ==
  evs[Len(evs)].type = "session.created"

ShouldRegister(added, evs) ==
  ~added /\ evs[Len(evs)].type = "session.created"

LifecycleCheckNoFlag(st, evs, now) ==
  IF ShouldRegister(st.functionAdded, evs)
  THEN [st EXCEPT
          !.logs = AddLog(AddLog(@, now, "Session Created", EventData(evs[Len(evs)])),
                          now, "Tools Registered", ToolsData),
          !.sent = Append(@, sessionUpdate),
          !.registered = TRUE,
          !.trace = @ \o << Ev("log", 0, "Session Created", EventData(evs[Len(evs)])),
                            Ev("send", 0, "session.update", Undefined),
                            Ev("log", 0, "Tools Registered", ToolsData) >>]
  ELSE st

LifecycleCheck(st, evs, now) ==
  IF ShouldRegister(st.functionAdded, evs)
  THEN [st EXCEPT
          !.logs = AddLog(AddLog(@, now, "Session Created", EventData(evs[Len(evs)])),
                          now, "Tools Registered", ToolsData),
          !.sent = Append(@, sessionUpdate),
          !.functionAdded = TRUE,
          !.registered = TRUE,
          !.trace = @ \o << Ev("log", 0, "Session Created", EventData(evs[Len(evs)])),
                            Ev("send", 0, "session.update", Undefined),
                            Ev("log", 0, "Tools Registered", ToolsData) >>]
  ELSE st

HasOutput(ev) == ev.type = "response.done" /\ ev.response.has_output

Timer(id, ep) == [id |-> id, kind |-> "timer", epoch |-> ep]
Fetch(id, ep) == [id |-> id, kind |-> "fetch", epoch |-> ep]

RequestPayload(args) ==
  Obj([question |-> Get(args, "question"),
       overrideConfig |-> Obj([sessionId |-> Get(args, "sessionId")])])

RequestData(args) ==
  Obj([endpoint |-> Str(Endpoint), payload |-> RequestPayload(args)])

\* lines 156-167
HandlePaletteFetch(st, id, ep) ==
  [st EXCEPT !.pending = @ \cup {Timer(id, ep), Fetch(id, ep)},
             !.trace = @ \o << Ev("timer", id, "", Undefined),
                               Ev("fetch", id, "", Undefined) >>]

HandlePalette(st, id, ep) ==
  [st EXCEPT !.pending = @ \cup {Timer(id, ep)},
             !.trace = Append(@, Ev("timer", id, "", Undefined))]

\* lines 168-191: up to the point where fetch has been called
HandleEnquiry(st, id, ep, output, now) ==
  LET args == JSONParse(output.arguments).value
  IN  IF PropertyReadThrows(args)
      THEN [st EXCEPT !.threw = TRUE]
      ELSE [st EXCEPT
              !.logs = AddLog(@, now, "API Request", RequestData(args)),
              !.pending = @ \cup {Fetch(id, ep)},
              !.trace = @ \o << Ev("log", id, "API Request", RequestData(args)),
                                Ev("fetch", id, "", RequestPayload(args)) >>]

RouteElseEnquiry(st, id, ep, output, now) ==
  IF output.name = "display_color_palette"
  THEN HandlePalette(st, id, ep)
  ELSE HandleEnquiry(st, id, ep, output, now)

Route(st, id, ep, output, now) ==
  IF output.name = "display_color_palette"
  THEN HandlePalette(st, id, ep)
  ELSE IF output.name = "foreign_worker_enquiry"
       THEN HandleEnquiry(st, id, ep, output, now)
       ELSE st

\* lines 149-213: the body of the forEach callback for the entry at index i
DispatchEntry(st, i, output, ep, now) ==
  IF output.type # "function_call"
  THEN st
  ELSE LET parsed == JSONParse(output.arguments)
           id     == st.calls + 1
           data   == Obj([name |-> Str(output.name), arguments |-> parsed.value])
       IN  IF ~parsed.ok
           THEN [st EXCEPT !.threw = TRUE]
           ELSE LET logged == [st EXCEPT
                                 !.logs = AddLog(@, now, "Function Call", data),
                                 !.calls = id,
                                 !.functionCallOutput = output,
                                 !.trace = Append(@, Ev("log", id, "Function Call", data))]
                    routed == Route(logged, id, ep, output, now)
                IN  IF routed.threw
                    THEN routed
                    ELSE [routed EXCEPT !.dispatched = @ \cup {i}]

\* Array.prototype.forEach: entries in order; an exception thrown by the
\* callback ends the iteration and leaves forEach.
RECURSIVE ForEachOutput(_, _, _, _, _)
ForEachOutput(st, output, i, ep, now) ==
  IF i > Len(output) \/ st.threw
  THEN st
  ELSE ForEachOutput(DispatchEntry(st, i, output[i], ep, now), output, i + 1, ep, now)

OutputCheckOldest(st, evs, ep, now) ==
  IF HasOutput(evs[Len(evs)])
  THEN ForEachOutput(st, evs[Len(evs)].response.output, 1, ep, now)
  ELSE st

OutputCheck(st, evs, ep, now) ==
  IF HasOutput(evs[1])
  THEN ForEachOutput(st, evs[1].response.output, 1, ep, now)
  ELSE st

EventsEffect(st, evs, ep, now) ==
  IF Len(evs) = 0
  THEN st
  ELSE OutputCheck(LifecycleCheck(st, evs, now), evs, ep, now)

\* The component state the events effect starts from.
EffectState ==
  [functionAdded |-> functionAdded, functionCallOutput |-> functionCallOutput,
   logs |-> logs, pending |-> pending, sent |-> sent, calls |-> calls,
   trace |-> trace, threw |-> FALSE, dispatched |-> {}, registered |-> FALSE]

\* A new value of the events prop is committed and the events effect runs.
\* An exception leaving the effect unmounts the component.
FeedUpdate(evs) ==
  LET st == EventsEffect(EffectState, evs, epoch, clock)
  IN  /\ mounted
      /\ updates < MaxUpdates
      /\ updates' = updates + 1
      /\ events' = evs
      /\ functionAdded' = st.functionAdded
      /\ functionCallOutput' = st.functionCallOutput
      /\ logs' = st.logs
      /\ pending' = st.pending
      /\ sent' = st.sent
      /\ calls' = st.calls
      /\ trace' = st.trace
      /\ mounted' = ~st.threw
      /\ lastRun' = [ran |-> TRUE,
                     output |-> IF Len(evs) > 0 /\ HasOutput(evs[1])
                                THEN evs[1].response.output ELSE <<>>,
                     dispatched |-> st.dispatched, threw |-> st.threw,
                     registered |-> st.registered]
      /\ UNCHANGED <<isSessionActive, clock, epoch, sentMark>>

\* The transport delivers an event: it becomes the newest of the feed.
FeedPrepend(e) ==
  /\ FeedUpdate(<<e>> \o events)
  /\ calls' <= MaxCalls

\* The parent empties the feed (a new connection).
FeedClear ==
  /\ Len(events) > 0
  /\ FeedUpdate(<<>>)

\* The parent passes a new array that keeps only the n newest events of the
\* feed (events.slice(0, n) is a new array even when nothing is dropped).
FeedTrim(n) ==
  /\ FeedUpdate(SubSeq(events, 1, n))
  /\ calls' <= MaxCalls

(***************************************************************************)
(* The session effect, lines 218-225.                                      *)
(***************************************************************************)
Time(c) == [t |-> "date", iso |-> c]

ResetData(now) == Obj([timestamp |-> Time(now)])

\* setLogs([]) followed by addLog('Session Reset', ...)
ResetLogsKeep(prevLogs, now) == AddLog(prevLogs, now, "Session Reset", ResetData(now))

ResetLogs(prevLogs, now) == AddLog(<<>>, now, "Session Reset", ResetData(now))

\* The effect has no cleanup: timers and remote calls in flight stay.
PendingAfterResetCancelled(tasks) == {}

PendingAfterReset(tasks) == tasks

\* isSessionActive becomes false and the session effect runs.
Deactivate ==
  /\ mounted
  /\ isSessionActive
  /\ epoch < MaxSessions
  /\ isSessionActive' = FALSE
  /\ functionAdded' = FALSE
  /\ functionCallOutput' = NoOutcome
  /\ logs' = ResetLogs(logs, clock)
  /\ pending' = PendingAfterReset(pending)
  /\ epoch' = epoch + 1
  /\ sentMark' = Len(sent)
  /\ trace' = Append(trace, Ev("log", 0, "Session Reset", ResetData(clock)))
  /\ UNCHANGED <<events, mounted, clock, sent, calls, updates, lastRun>>

\* isSessionActive becomes true: the session effect runs and does nothing.
Activate ==
  /\ mounted
  /\ ~isSessionActive
  /\ isSessionActive' = TRUE
  /\ UNCHANGED <<events, functionAdded, functionCallOutput, logs, mounted, clock,
                 pending, sent, calls, updates, epoch, sentMark, trace, lastRun>>

(***************************************************************************)
(* Completion of the deferred tasks.                                       *)
(***************************************************************************)
ErrorValue(name) == Obj([name |-> Str(name)])

\* lines 157-167: the timer callback
TimerCallbackSilent(st, id) == st

TimerCallback(st, id) ==
  [st EXCEPT !.sent = Append(@, ResponseCreate(PaletteInstructions)),
             !.trace = Append(@, Ev("send", id, "response.create", PaletteInstructions))]

\* lines 202-211: the .catch callback
CatchCallbackAsResponse(st, id, error, now) ==
  [st EXCEPT !.logs = SetLogs(st.mounted, @, now, "API Response", error),
             !.sent = Append(@, ResponseCreate(ApologyInstructions)),
             !.trace = @ \o << Ev("log", id, "API Response", error),
                               Ev("send", id, "response.create", ApologyInstructions) >>]

CatchCallback(st, id, error, now) ==
  [st EXCEPT !.logs = SetLogs(st.mounted, @, now, "API Error", error),
             !.sent = Append(@, ResponseCreate(ApologyInstructions)),
             !.trace = @ \o << Ev("log", id, "API Error", error),
                               Ev("send", id, "response.create", ApologyInstructions) >>]

InstructionsFixed(data) == Str("Answer A.")

\* line 198: data.text
Instructions(data) == Get(data, "text")

\* lines 193-201: the .then callback; an exception it throws reaches .catch
ThenCallbackSendFirst(st, id, data, now) ==
  IF PropertyReadThrows(data)
  THEN CatchCallback([st EXCEPT !.logs = SetLogs(st.mounted, @, now, "API Response", data),
                                !.trace = Append(@, Ev("log", id, "API Response", data))],
                     id, ErrorValue("TypeError"), now)
  ELSE [st EXCEPT !.logs = SetLogs(st.mounted, @, now, "API Response", data),
                  !.sent = Append(@, ResponseCreate(Instructions(data))),
                  !.trace = @ \o << Ev("send", id, "response.create", Instructions(data)),
                                    Ev("log", id, "API Response", data) >>]

ThenCallback(st, id, data, now) ==
  LET logged == [st EXCEPT !.logs = SetLogs(st.mounted, @, now, "API Response", data),
                           !.trace = Append(@, Ev("log", id, "API Response", data))]
  IN  IF PropertyReadThrows(data)
      THEN CatchCallback(logged, id, ErrorValue("TypeError"), now)
      ELSE [logged EXCEPT
              !.sent = Append(@, ResponseCreate(Instructions(data))),
              !.trace = Append(@, Ev("send", id, "response.create", Instructions(data)))]

\* line 192: response.json() settles, then .then or .catch runs
BodySettled(st, id, body, now) ==
  LET parsed == JSONParse(body)
  IN  IF parsed.ok
      THEN ThenCallback(st, id, parsed.value, now)
      ELSE CatchCallback(st, id, ErrorValue("SyntaxError"), now)

CompletionState ==
  [logs |-> logs, sent |-> sent, trace |-> trace, mounted |-> mounted]

Complete(t, st) ==
  /\ logs' = st.logs
  /\ sent' = st.sent
  /\ trace' = st.trace
  /\ UNCHANGED <<isSessionActive, events, functionAdded, functionCallOutput,
                 mounted, clock, calls, updates, epoch, sentMark, lastRun>>

\* The 500 ms timer of a display_color_palette call fires.
TimerFire(t) ==
  /\ t \in pending
  /\ t.kind = "timer"
  /\ pending' = pending \ {t}
  /\ Complete(t, TimerCallback(CompletionState, t.id))

\* fetch() rejects (network error): .catch runs.
FetchReject(t) ==
  /\ t \in pending
  /\ t.kind = "fetch"
  /\ pending' = pending \ {t}
  /\ Complete(t, CatchCallback([CompletionState EXCEPT
                                  !.trace = Append(@, Ev("reject", t.id, "", Undefined))],
                               t.id, ErrorValue("TypeError"), clock))

\* fetch() resolves with response r (of any status), response.json() settles
\* on its body, and the callback chained on it runs.  Nothing the component
\* does can tell the two promises apart, so they settle in one step.
FetchResolve(t, r) ==
  /\ t \in pending
  /\ t.kind = "fetch"
  /\ pending' = pending \ {t}
  /\ Complete(t, BodySettled([CompletionState EXCEPT
                                !.trace = Append(@, Ev("response", t.id, r.body,
                                                       Num(r.status)))],
                              t.id, r.body, clock))

\* Time passes.
Tick ==
  /\ clock < MaxClock
  /\ clock' = clock + 1
  /\ UNCHANGED <<isSessionActive, events, functionAdded, functionCallOutput, logs,
                 mounted, pending, sent, calls, updates, epoch, sentMark, trace, lastRun>>

(***************************************************************************)
(* The result projection: the FunctionCallOutput component, lines 64-112,  *)
(* and the result area of the ToolPanel render, lines 231-237 and 255-257. *)
(* A view is what is displayed: its kind, its text (the theme, the         *)
(* question or the placeholder), its colored blocks and the raw call        *)
(* record shown beneath; threw records an exception leaving the render.    *)
(***************************************************************************)
NotStartedText == Str("Start the session to use these tools...")
PromptText     == Str("Ask about color palettes or foreign worker requirements...")

View(kind, text, blocks, raw) ==
  [kind |-> kind, text |-> text, blocks |-> blocks, raw |-> raw, threw |-> FALSE]

RenderThrows ==
  [kind |-> "error", text |-> Undefined, blocks |-> <<>>, raw |-> NoOutcome, threw |-> TRUE]

\* lines 69-77: the block of one color, its background and its label
ColorBox(color) == [key |-> color, backgroundColor |-> color, label |-> color]

ColorBoxesReversed(colors) ==
  [i \in DOMAIN colors |-> ColorBox(colors[Len(colors) + 1 - i])]

\* line 68: colors.map
ColorBoxes(colors) == [i \in DOMAIN colors |-> ColorBox(colors[i])]

\* lines 64-112; a component that returns undefined displays nothing
FunctionCallOutput(output) ==
  IF output.name = "display_color_palette"
  THEN LET parsed == JSONParse(output.arguments)
       IN  IF ~parsed.ok \/ PropertyReadThrows(parsed.value)
           THEN RenderThrows
           ELSE LET theme  == Get(parsed.value, "theme")
                    colors == Get(parsed.value, "colors")
                IN  IF colors.t # "array"
                    THEN RenderThrows
                    ELSE View("palette", theme, ColorBoxes(colors.a), output)
  ELSE IF output.name = "foreign_worker_enquiry"
       THEN LET parsed == JSONParse(output.arguments)
            IN  IF ~parsed.ok \/ PropertyReadThrows(parsed.value)
                THEN RenderThrows
                ELSE View("enquiry", Get(parsed.value, "question"), <<>>, output)
       ELSE View("nothing", Undefined, <<>>, NoOutcome)

\* lines 231-237 and 255-257
Render(active, outcome) ==
  IF active
  THEN IF outcome # NoOutcome
       THEN FunctionCallOutput(outcome)
       ELSE View("prompt", PromptText, <<>>, NoOutcome)
  ELSE View("not started", NotStartedText, <<>>, NoOutcome)

(***************************************************************************)
(* The component after mounting with an inactive session and an empty     *)
(* feed: both effects have run once.  The events effect returned at once;  *)
(* the session effect reset the state.                                     *)
(***************************************************************************)
Init ==
  /\ isSessionActive = FALSE
  /\ events = <<>>
  /\ functionAdded = FALSE
  /\ functionCallOutput = NoOutcome
  /\ logs = ResetLogs(<<>>, 0)
  /\ mounted = TRUE
  /\ clock = 0
  /\ pending = {}
  /\ sent = <<>>
  /\ calls = 0
  /\ updates = 0
  /\ epoch = 0
  /\ sentMark = 0
  /\ trace = <<Ev("log", 0, "Session Reset", ResetData(0))>>
  /\ lastRun = NoRun

Next ==
  \/ \E e \in EventPool : FeedPrepend(e)
  \/ FeedClear
  \/ Activate
  \/ Deactivate
  \/ \E t \in pending : TimerFire(t)
  \/ \E t \in pending : \E r \in ResponsePool : FetchResolve(t, r)
  \/ \E t \in pending : FetchReject(t)

Spec == Init /\ [][Next]_vars

\* The same component under a parent that may also trim the feed.
NextTrim ==
  \/ Next
  \/ \E n \in 1..Len(events) : FeedTrim(n)

SpecTrim == Init /\ [][NextTrim]_vars

\* Under the assumption that timers fire and remote calls settle.
FairSpec ==
  /\ Spec
  /\ WF_vars(\E t \in pending : TimerFire(t))
  /\ WF_vars(\E t \in pending : FetchReject(t) \/ \E r \in ResponsePool : FetchResolve(t, r))

(***************************************************************************)
(* The log recorder on its own: handlers call addLog again and again while *)
(* time passes.  Every payload is the number of the call, so that no two   *)
(* entries are equal.                                                      *)
(***************************************************************************)
LogAppend ==
  /\ Len(trace) < MaxAppends
  /\ logs' = AddLog(logs, clock, "API Response", Num(Len(trace)))
  /\ trace' = Append(trace, Ev("log", 0, "API Response", Num(Len(trace))))
  /\ UNCHANGED <<isSessionActive, events, functionAdded, functionCallOutput, mounted,
                 clock, pending, sent, calls, updates, epoch, sentMark, lastRun>>

NextLog ==
  \/ LogAppend
  \/ Tick

SpecLog == Init /\ [][NextLog]_vars

(***************************************************************************)
(* Vocabulary of the properties.                                           *)
(***************************************************************************)
CallIds == 1..MaxCalls

Positions(op, id) == {i \in DOMAIN trace : trace[i].op = op /\ trace[i].call = id}

LogPositions(type, id) == {i \in Positions("log", id) : trace[i].arg = type}

\* the call reached its handler: its timer or its remote call was started
Recognized(id) == Positions("timer", id) \cup Positions("fetch", id) # {}

InFlight(id) == \E t \in pending : t.id = id

FollowUps(id) == Cardinality(Positions("send", id))

Registrations(channel) ==
  Cardinality({i \in DOMAIN channel : channel[i].type = "session.update"})

ResponseCreates(channel) ==
  Cardinality({i \in DOMAIN channel : channel[i].type = "response.create"})

RegsSinceReset ==
  Cardinality({i \in (sentMark + 1)..Len(sent) : sent[i].type = "session.update"})

OldestIsCreated(evs) == Len(evs) > 0 /\ evs[Len(evs)].type = "session.created"

\* the sendClientEvent calls of the trace, in order
SendEvents == SelectSeq(trace, LAMBDA e : e.op = "send")

\* C1: within one session (since the latest reset) session.update is emitted
\* at most once; it is emitted by the feed update that observes session.created
\* as the oldest event while the flag is false, and no step taken while the
\* flag stays set emits another one.
C1_RegistrationOncePerSession ==
  [][ /\ RegsSinceReset' <= 1
      /\ (functionAdded /\ functionAdded') => Registrations(sent') = Registrations(sent)
      /\ (updates' # updates /\ ~functionAdded /\ OldestIsCreated(events'))
           => /\ Registrations(sent') = Registrations(sent) + 1
              /\ RegsSinceReset' = 1 ]_vars

\* a feed update presented session.created again after the registration
C1_Witness ==
  /\ functionAdded
  /\ RegsSinceReset = 1
  /\ lastRun.ran /\ ~lastRun.registered
  /\ Len(events) = 2 /\ events[1].type = "session.created"

\* C2: every function call that reached the display_color_palette or the
\* foreign_worker_enquiry handler gets exactly one response.create: none while
\* its timer or remote call is in flight, one from then on, and it does
\* complete; the transport receives no other response.create.
C2_ExactlyOneFollowUp ==
  /\ [](\A id \in CallIds :
          FollowUps(id) = IF Recognized(id) /\ ~InFlight(id) THEN 1 ELSE 0)
  /\ [](ResponseCreates(sent) = Cardinality({id \in CallIds : FollowUps(id) = 1}))
  /\ (\E id \in CallIds : Recognized(id) /\ FollowUps(id) = 0)
       ~> (\A id \in CallIds : Recognized(id) => FollowUps(id) = 1)

\* a timer call and a failed remote call have both completed
C2_Witness ==
  /\ pending = {}
  /\ \E id \in CallIds : Positions("timer", id) # {} /\ FollowUps(id) = 1
  /\ \E id \in CallIds : LogPositions("API Error", id) # {} /\ FollowUps(id) = 1

\* C3: a run of the events effect over an output list with an entry whose
\* arguments are not JSON leaves the component working and has dispatched
\* every function_call entry of the list whose arguments are a JSON object.
HasMalformedEntry(output) ==
  \E j \in DOMAIN output :
    output[j].type = "function_call" /\ ~JSONParse(output[j].arguments).ok

WellFormedEntries(output) ==
  {i \in DOMAIN output :
     /\ output[i].type = "function_call"
     /\ JSONParse(output[i].arguments).ok
     /\ ~PropertyReadThrows(JSONParse(output[i].arguments).value)}

C3_MalformedEntryIsolated ==
  (lastRun.ran /\ HasMalformedEntry(lastRun.output))
    => /\ mounted
       /\ ~lastRun.threw
       /\ WellFormedEntries(lastRun.output) \subseteq lastRun.dispatched

\* C5: the step that makes the session inactive leaves the flag false, no
\* current outcome, and a log of exactly one entry, "Session Reset".
C5_ResetOnDeactivation ==
  [][ (isSessionActive /\ ~isSessionActive')
        => /\ functionAdded' = FALSE
           /\ functionCallOutput' = NoOutcome
           /\ Len(logs') = 1
           /\ logs'[1].type = "Session Reset" ]_vars

\* a reset of a session that had registered and dispatched a call
C5_Witness ==
  /\ ~isSessionActive
  /\ epoch = 1
  /\ sentMark > 0
  /\ calls > 0
  /\ functionCallOutput = NoOutcome
  /\ Len(logs) = 1

\* the addLog calls since (and including) the latest "Session Reset"
LogCalls == SelectSeq(trace, LAMBDA e : e.op = "log")

LastReset ==
  LET R == {i \in DOMAIN LogCalls : LogCalls[i].arg = "Session Reset"}
  IN  IF R = {} THEN 1 ELSE CHOOSE i \in R : \A j \in R : j <= i

LogCallsSinceReset == SubSeq(LogCalls, LastReset, Len(LogCalls))

AsEntry(e) == [timestamp |-> e.at, type |-> e.arg, data |-> e.val]

\* C4: the log never holds more than 50 entries; it holds the min(n, 50)
\* entries appended last, the newest at index 1.
C4_LogBounded ==
  LET n    == Len(LogCallsSinceReset)
      kept == IF n < LogCapacity THEN n ELSE LogCapacity
  IN  /\ Len(logs) <= LogCapacity
      /\ Len(logs) = kept
      /\ \A k \in 1..kept : logs[k] = AsEntry(LogCallsSinceReset[n - k + 1])

\* more than 50 appends were made, across a tick of the clock
C4_Witness ==
  /\ Len(LogCallsSinceReset) > LogCapacity
  /\ Len(logs) = LogCapacity
  /\ logs[1].timestamp # logs[LogCapacity].timestamp

\* the sendClientEvent argument(s) of call id, as the transport received them
SentFor(id) ==
  {sent[k] : k \in {j \in DOMAIN SendEvents \cap DOMAIN sent : SendEvents[j].call = id}}

\* what the handlers did for call id, in order
Label(e) == IF e.op = "log" THEN e.arg ELSE e.op

CallTrace(id) == SelectSeq(trace, LAMBDA e : e.call = id)

CallLabels(id) == [i \in DOMAIN CallTrace(id) |-> Label(CallTrace(id)[i])]

\* the remote call of id failed: network error, or a body that is not JSON
FailedRemote(id) ==
  \/ Positions("reject", id) # {}
  \/ \E i \in Positions("response", id) : ~JSONParse(trace[i].arg).ok

\* C6: a foreign_worker_enquiry call whose remote call failed has logged
\* "API Request", then "API Error", and then sent one response.create with the
\* apology, which is what the transport received; it has logged no
\* "API Response".
C6_FailureLogsAndApologises ==
  \A id \in CallIds :
    FailedRemote(id) =>
      /\ CallLabels(id) \in
           { <<"Function Call", "API Request", "fetch", "reject", "API Error", "send">>,
             <<"Function Call", "API Request", "fetch", "response", "API Error", "send">> }
      /\ SentFor(id) = {ResponseCreate(ApologyInstructions)}
      /\ Len(SendEvents) = Len(sent)

\* one call failed with a network error and one with an undecodable body
C6_Witness ==
  /\ \E id \in CallIds : Positions("reject", id) # {} /\ FollowUps(id) = 1
  /\ \E id \in CallIds :
       /\ FollowUps(id) = 1
       /\ \E i \in Positions("response", id) : trace[i].arg = BodyHtml

\* C7: every remote call answered with a status outside 200..299 has logged
\* "API Error" and sent the apology, whatever its body.
C7_NonOkStatusIsFailure ==
  \A id \in CallIds :
    \A i \in Positions("response", id) :
      trace[i].val.n \notin 200..299 =>
        /\ LogPositions("API Error", id) # {}
        /\ SentFor(id) = {ResponseCreate(ApologyInstructions)}

\* C8: for every foreign_worker_enquiry call, "API Request" is logged before
\* the remote call is issued (hence before it completes), and "API Response" or
\* "API Error" is logged before the follow-up of that call is sent.
C8_LogBeforeEffect ==
  \A id \in CallIds :
    /\ \A f \in Positions("fetch", id) \cup Positions("response", id)
                 \cup Positions("reject", id) :
         \E l \in LogPositions("API Request", id) : l < f
    /\ Positions("fetch", id) # {} =>
         \A x \in Positions("send", id) :
           \E l \in LogPositions("API Response", id) \cup LogPositions("API Error", id) :
             l < x

\* a remote call answered and one failed, both with their follow-up sent
C8_Witness ==
  /\ \E id \in CallIds :
       CallLabels(id) = <<"Function Call", "API Request", "fetch", "response",
                          "API Response", "send">>
  /\ \E id \in CallIds : LogPositions("API Error", id) # {} /\ FollowUps(id) = 1

\* C9: every remote call that completed with a JSON object has logged one
\* "API Response" with that object and sent one response.create whose
\* instructions are the text property of that same object.
C9_OwnResponse ==
  \A id \in CallIds :
    \A i \in Positions("response", id) :
      LET parsed == JSONParse(trace[i].arg)
      IN  (parsed.ok /\ parsed.value.t = "object") =>
            /\ Cardinality(LogPositions("API Response", id)) = 1
            /\ \A l \in LogPositions("API Response", id) : trace[l].val = parsed.value
            /\ FollowUps(id) = 1
            /\ SentFor(id) = {ResponseCreate(Get(parsed.value, "text"))}

\* two remote calls were in flight together and completed in the reverse
\* order of their dispatch, with different bodies
C9_Witness ==
  \E a, b \in CallIds :
    /\ a < b
    /\ \E i \in Positions("response", a), j \in Positions("response", b),
          f \in Positions("fetch", b) :
         /\ f < j /\ j < i
         /\ trace[i].arg = BodyA
         /\ trace[j].arg = BodyErr

\* C10: a session reset leaves the timers and remote calls in flight; a task
\* started before a reset still completes: it sends its response.create, a
\* remote call logs "API Response" or "API Error" first, and nothing is thrown.
C10_NoCancellation ==
  [][ /\ (epoch' # epoch) => (pending' = pending)
      /\ \A t \in pending :
           (t.epoch < epoch /\ ~\E u \in pending' : u.id = t.id) =>
             /\ Len(sent') = Len(sent) + 1
             /\ sent'[Len(sent')].type = "response.create"
             /\ mounted' = mounted
             /\ (t.kind = "timer") => (logs' = logs)
             /\ (t.kind # "timer") =>
                  /\ \E i \in (Len(trace) + 1)..Len(trace') :
                       /\ trace'[i].op = "log"
                       /\ trace'[i].call = t.id
                       /\ trace'[i].arg \in {"API Response", "API Error"}
                  /\ mounted =>
                       /\ Len(logs') > Len(logs)
                       /\ logs'[1].type \in {"API Response", "API Error"} ]_vars

\* a remote call dispatched before the reset completed after it: its entry
\* sits right on top of "Session Reset"
C10_Witness ==
  /\ epoch = 1
  /\ Len(logs) = 2
  /\ logs[1].type = "API Response"
  /\ logs[2].type = "Session Reset"
  /\ sent[Len(sent)].type = "response.create"

\* the function_call entries of an output list, in list order
FunctionCallEntries(output) == SelectSeq(output, LAMBDA o : o.type = "function_call")

\* the effects that a step adds to the trace
NewEffects == SubSeq(trace', Len(trace) + 1, Len(trace'))

\* the "Function Call" log entries that a step appends, in order
NewFunctionCallLogs ==
  SelectSeq(NewEffects, LAMBDA e : e.op = "log" /\ e.arg = "Function Call")

\* C11: a feed update whose newest event is a response.done with several
\* function_call entries dispatches each of them, logs one "Function Call"
\* entry per function_call entry in list order and nothing for the other
\* entries, and leaves the last function_call entry as the current outcome.
C11_EachEntryDispatchedInOrder ==
  [][ ( /\ updates' # updates
        /\ Len(events') > 0
        /\ HasOutput(events'[1])
        /\ Len(FunctionCallEntries(events'[1].response.output)) >= 2 )
      => LET output == events'[1].response.output
             fc     == FunctionCallEntries(output)
         IN  /\ lastRun'.dispatched = {i \in DOMAIN output : output[i].type = "function_call"}
             /\ calls' = calls + Len(fc)
             /\ Len(NewFunctionCallLogs) = Len(fc)
             /\ \A k \in DOMAIN fc : NewFunctionCallLogs[k].val.o.name.s = fc[k].name
             /\ functionCallOutput' = fc[Len(fc)] ]_vars

\* C12: a feed update registers only if the oldest event of the new feed is
\* session.created, and dispatches only if its newest event is a
\* response.done with an output list: a session.created elsewhere in the
\* feed and a response.done elsewhere in the feed trigger nothing.
C12_OldestAndNewestOnly ==
  [][ updates' # updates
        => /\ Registrations(sent') # Registrations(sent) => OldestIsCreated(events')
           /\ (calls' # calls \/ pending' # pending \/ NewFunctionCallLogs # <<>>)
                => (Len(events') > 0 /\ HasOutput(events'[1])) ]_vars

\* session.created is the newest of two events and the response.done that was
\* dispatched when it arrived is now the oldest: the update that delivered
\* session.created neither registered nor dispatched
C12_Witness ==
  /\ Len(events) = 2
  /\ events[1].type = "session.created"
  /\ HasOutput(events[2])
  /\ mounted
  /\ ~functionAdded
  /\ Registrations(sent) = 0
  /\ calls = 1
  /\ lastRun.ran /\ lastRun.dispatched = {} /\ ~lastRun.registered

\* C13: the flag is true exactly when a session.update has been sent since
\* the latest session reset (or since the start); it becomes false only in
\* the step that makes the session inactive and becomes true only in a step
\* that sends a session.update.
C13_FlagTracksRegistration ==
  /\ (functionAdded <=> RegsSinceReset >= 1)
  /\ [][ /\ functionAdded' <=> RegsSinceReset' >= 1
         /\ (functionAdded /\ ~functionAdded') => (isSessionActive /\ ~isSessionActive')
         /\ (~functionAdded /\ functionAdded')
              => Registrations(sent') = Registrations(sent) + 1 ]_vars

\* the flag of the second session: set, reset by the deactivation, set again
\* by a second registration
C13_Witness ==
  /\ functionAdded
  /\ epoch = 1
  /\ RegsSinceReset = 1
  /\ Registrations(sent) = 2

\* the calls whose "Function Call" entry names display_color_palette
PaletteCalls ==
  {id \in CallIds :
     \E i \in LogPositions("Function Call", id) :
       trace[i].val.o.name.s = "display_color_palette"}

\* C14: a display_color_palette call logs "Function Call" and nothing else,
\* starts a timer and no remote call, and sends one response.create with the
\* palette instructions once the timer has fired; the step in which a timer
\* fires sends that event and leaves the log, the current outcome and the
\* flag as they were.
C14_PaletteCall ==
  /\ [](\A id \in PaletteCalls :
          /\ CallLabels(id) = IF InFlight(id)
                              THEN <<"Function Call", "timer">>
                              ELSE <<"Function Call", "timer", "send">>
          /\ SentFor(id) \subseteq {ResponseCreate(PaletteInstructions)})
  /\ [][ \A t \in pending \ pending' :
           t.kind = "timer"
             => /\ sent' = Append(sent, ResponseCreate(PaletteInstructions))
                /\ logs' = logs
                /\ functionCallOutput' = functionCallOutput
                /\ functionAdded' = functionAdded ]_vars

\* the timer of a palette call has fired in a working component that shows
\* the palette
C14_Witness ==
  /\ mounted
  /\ functionCallOutput = OutPalette
  /\ \E id \in PaletteCalls : CallLabels(id) = <<"Function Call", "timer", "send">>

UnknownName(name) == name \notin {"display_color_palette", "foreign_worker_enquiry"}

\* the calls whose "Function Call" entry names neither tool
UnknownCalls ==
  {id \in CallIds :
     \E i \in LogPositions("Function Call", id) : UnknownName(trace[i].val.o.name.s)}

FunctionCallIndices(output) == {i \in DOMAIN output : output[i].type = "function_call"}

\* C15: a function_call entry with an unknown name has no effect beyond its
\* "Function Call" entry: no timer, no remote call, no event sent; the run of
\* the effect that met it did not throw and dispatched every function_call
\* entry of the list; and the projection of such an outcome displays nothing
\* and does not throw.
C15_UnknownToolIgnored ==
  /\ \A id \in UnknownCalls :
        /\ CallLabels(id) = <<"Function Call">>
        /\ ~InFlight(id)
        /\ SentFor(id) = {}
  /\ ( /\ lastRun.ran
       /\ \E i \in FunctionCallIndices(lastRun.output) : UnknownName(lastRun.output[i].name) )
      => /\ ~lastRun.threw
         /\ lastRun.dispatched = FunctionCallIndices(lastRun.output)
  /\ (functionCallOutput # NoOutcome /\ UnknownName(functionCallOutput.name))
      => /\ FunctionCallOutput(functionCallOutput) = View("nothing", Undefined, <<>>, NoOutcome)
         /\ ~Render(isSessionActive, functionCallOutput).threw

\* an active session displays the outcome of an unknown call whose sibling,
\* the entry after it, was dispatched as well
C15_Witness ==
  /\ isSessionActive
  /\ mounted
  /\ functionCallOutput = OutUnknown
  /\ Cardinality(UnknownCalls) = 2
  /\ lastRun.dispatched = {1, 2}
  /\ Render(isSessionActive, functionCallOutput).kind = "nothing"

\* C16: every event handed to the transport is the session.update with the
\* two tool declarations and tool_choice "auto", or a response.create whose
\* instructions are a string.
C16_OutboundShape ==
  \A i \in DOMAIN sent :
    \/ sent[i] = sessionUpdate
    \/ /\ sent[i].type = "response.create"
       /\ IsString(sent[i].response.instructions)

\* what is displayed in the current state
Displayed == Render(isSessionActive, functionCallOutput)

\* the background colors of the displayed blocks, in display order
DisplayedColors == [i \in DOMAIN Displayed.blocks |-> Displayed.blocks[i].backgroundColor.s]

\* C17: what is displayed is determined by the session being active and the
\* current outcome: an inactive session shows the "not started" placeholder
\* whatever the outcome, an active session without outcome shows the neutral
\* prompt, and an active session with a display_color_palette outcome shows
\* one block per element of colors, in the order of the list (the five
\* colors #001 .. #005 of the palette call give five blocks in that order).
C17_Projection ==
  /\ ~isSessionActive
       => Displayed = View("not started", NotStartedText, <<>>, NoOutcome)
  /\ (isSessionActive /\ functionCallOutput = NoOutcome)
       => Displayed = View("prompt", PromptText, <<>>, NoOutcome)
  /\ (isSessionActive /\ functionCallOutput.name = "display_color_palette")
       => LET colors == Get(JSONParse(functionCallOutput.arguments).value, "colors").a
          IN  /\ ~Displayed.threw
              /\ Len(Displayed.blocks) = Len(colors)
              /\ \A i \in DOMAIN colors : Displayed.blocks[i].label = colors[i]
              /\ functionCallOutput.arguments = PaletteArgs
                   => DisplayedColors = <<"#001", "#002", "#003", "#004", "#005">>

\* an active, working session displays the five blocks of a palette call
C17_Witness ==
  /\ isSessionActive
  /\ mounted
  /\ functionCallOutput = OutPalette
  /\ Len(Displayed.blocks) = 5

\* C18: a session.update is sent only while the session is active: after a
\* session reset, a feed update made while the session is still inactive and
\* the oldest event is still the session.created of the session before sends
\* no session.update and leaves the flag false.
C18_NoRegistrationWhileInactive ==
  [][ ( /\ updates' # updates
        /\ ~isSessionActive
        /\ epoch >= 1
        /\ OldestIsCreated(events)
        /\ OldestIsCreated(events') )
      => /\ Registrations(sent') = Registrations(sent)
         /\ functionAdded' = functionAdded ]_vars

\* C19: a function_call entry of a response.done event is dispatched at most
\* once: a feed update after which the newest event is the same event as
\* before (the feed was trimmed, nothing was delivered) appends no "Function
\* Call" entry, starts no timer or remote call and dispatches no call.
C19_DispatchedAtMostOnce ==
  [][ ( /\ updates' # updates
        /\ Len(events') > 0
        /\ Len(events') <= Len(events)
        /\ events' = SubSeq(events, 1, Len(events'))
        /\ HasOutput(events[1]) )
      => /\ calls' = calls
         /\ pending' = pending
         /\ NewFunctionCallLogs = <<>> ]_vars


====
